---- MODULE Spec2Model ----
(***************************************************************************)
(* OpenAuthStrategy (remix-auth-openauth): the OAuth2 Authorization-Code   *)
(* + PKCE strategy.  `authenticate` is modelled as a process per call with *)
(* its suspension points (the awaited Token Client calls and the awaited   *)
(* verify callback); the HTTP client that sends the requests and keeps the *)
(* Set-Cookie directives is modelled next to it.                           *)
(*                                                                         *)
(* Text values (`string | null`) are TLA+ strings; Null stands for the     *)
(* JavaScript null / undefined, "" for the empty string.                   *)
(***************************************************************************)
EXTENDS Integers, Sequences, FiniteSets, TLC

\* ------------------------------------------------------------------ bounds
\* authenticate calls made by the browser in one behaviour
MaxCalls == 4

\* refreshToken calls made in one behaviour
MaxRefreshCalls == 2

\* authenticate calls of the single-pair variant made in one behaviour
MaxVariantCalls == 2

\* ------------------------------------------------------------ text values
Null == "<null>"

\* JavaScript truthiness of a `string | null`: null and "" are falsy
Truthy(v) == v # Null /\ v # ""

\* ------------------------------------------------------- URLSearchParams
\* a query string is a sequence of [key, value] entries
NoParams == <<>>

\* URLSearchParams.get: the first value of the key, null when absent
ParamGet(params, key) ==
    IF \E i \in 1..Len(params) : params[i].key = key
    THEN params[CHOOSE i \in 1..Len(params) :
                    /\ params[i].key = key
                    /\ \A j \in 1..(i - 1) : params[j].key # key].value
    ELSE Null

RECURSIVE DropKey(_, _)
DropKey(params, key) ==
    IF params = <<>> THEN <<>>
    ELSE IF Head(params).key = key THEN DropKey(Tail(params), key)
    ELSE <<Head(params)>> \o DropKey(Tail(params), key)

\* URLSearchParams.set: the first entry of the key takes the value, the
\* other entries of the key are removed; appended when the key is absent
RECURSIVE ParamSet(_, _, _)
ParamSet(params, key, value) ==
    IF params = <<>> THEN <<[key |-> key, value |-> value]>>
    ELSE IF Head(params).key = key
         THEN <<[key |-> key, value |-> value]>> \o DropKey(Tail(params), key)
    ELSE <<Head(params)>> \o ParamSet(Tail(params), key, value)

\* ------------------------------------------------- Pending-State Store
\* A StoreSnapshot is a sequence of [state, verifier] entries, one per
\* state, in insertion order.
EmptyStore == <<>>

\* store.set(state, verifier): adds the pair to the snapshot; a state that
\* is already held keeps its place and takes the new verifier
RECURSIVE StoreSet(_, _, _)
StoreSet(store, state, verifier) ==
    IF store = <<>> THEN <<[state |-> state, verifier |-> verifier]>>
    ELSE IF Head(store).state = state
         THEN <<[state |-> state, verifier |-> verifier]>> \o Tail(store)
    ELSE <<Head(store)>> \o StoreSet(Tail(store), state, verifier)

StoreStates(store) == {store[i].state : i \in 1..Len(store)}

\* store.has(): non-emptiness;  store.has(state): presence of the state
StoreHasAny(store) == Len(store) > 0

StoreHas(store, state) == state \in StoreStates(store)

\* store.get(state): the verifier held under the state, undefined if none
StoreGet(store, state) ==
    IF StoreHas(store, state)
    THEN store[CHOOSE i \in 1..Len(store) : store[i].state = state].verifier
    ELSE Null

\* The cookie value is the serialized snapshot: the text of its entries.
\* A value that is not such a text is carried as wellFormed = FALSE.
StoreSerialize(store) == [wellFormed |-> TRUE, entries |-> store]

MalformedValue == [wellFormed |-> FALSE, entries |-> <<>>]

\* the entries of one cookie value added to a snapshot, in their order;
\* a malformed value adds nothing
RECURSIVE StoreLoad(_, _)
StoreLoad(store, entries) ==
    IF entries = <<>> THEN store
    ELSE StoreLoad(StoreSet(store, Head(entries).state, Head(entries).verifier),
                   Tail(entries))

StoreParse(store, value) ==
    IF value.wellFormed THEN StoreLoad(store, value.entries) ELSE store

\* StateStore.fromRequest(request, cookieName = "oauth2"): the snapshot held
\* by the request's Cookie header under the name; every directive the client
\* sends under that name is read; empty when there is none
RECURSIVE StoreFromHeader(_, _, _)
StoreFromHeader(store, header, cookieName) ==
    IF header = <<>> THEN store
    ELSE StoreFromHeader(
            IF Head(header).name = cookieName
            THEN StoreParse(store, Head(header).value) ELSE store,
            Tail(header), cookieName)

DefaultCookieName == "oauth2"

FromRequest(request, cookieName) ==
    StoreFromHeader(EmptyStore, request.cookie, cookieName)

FromRequestDefault(request) == FromRequest(request, DefaultCookieName)

\* store.toSetCookie(cookieName, options): the envelope of the snapshot
ToSetCookie(store, cookieName, cookieOptions) ==
    [name |-> cookieName,
     value |-> StoreSerialize(store),
     httpOnly |-> TRUE,
     path |-> "/",
     sameSite |-> "Lax",
     maxAge |-> 60 * 5]

\* redirect(url, init): the response raised to leave authenticate early
Redirect(location, setCookie) ==
    [status |-> 302, location |-> location, setCookie |-> <<setCookie>>]

NoResponse == [status |-> 0, location |-> NoParams, setCookie |-> <<>>]

\* ------------------------------------------------------------- errors
NoError ==
    [class |-> "", message |-> "", code |-> Null, description |-> Null,
     uri |-> Null, state |-> Null]

\* an OAuth2RequestError built with description and uri swapped
OAuth2RequestErrorSwapped(code, description, uri, state) ==
    [class |-> "OAuth2RequestError", message |-> "OAuth request error: " \o code,
     code |-> code, description |-> uri, uri |-> description, state |-> state]

\* new OAuth2RequestError(code, description, uri, state)
OAuth2RequestError(code, description, uri, state) ==
    [class |-> "OAuth2RequestError", message |-> "OAuth request error: " \o code,
     code |-> code, description |-> description, uri |-> uri, state |-> state]

JsError(class, message) ==
    [class |-> class, message |-> message, code |-> Null,
     description |-> Null, uri |-> Null, state |-> Null]

MissingStateError == JsError("ReferenceError", "Missing state in URL.")

MissingStoreError == JsError("ReferenceError", "Missing state on cookie.")

StateMismatchError ==
    JsError("RangeError", "State in URL doesn't match state in cookie.")

MissingVerifierError ==
    JsError("ReferenceError", "Missing code verifier on cookie.")

\* ------------------------------------------------ ConstructorOptions
\* options.cookie: undefined, a string, or an object with a name
CookieOptionChoices ==
    { [kind |-> "undefined", name |-> Null],
      [kind |-> "string", name |-> ""],
      [kind |-> "string", name |-> "auth"],
      [kind |-> "object", name |-> "auth"] }

RedirectUri == "https://example.com/callback"

ClientId == "client-id"

\* get cookieName()
CookieName(opts) ==
    IF opts.cookie.kind = "string"
    THEN (IF Truthy(opts.cookie.name) THEN opts.cookie.name ELSE "oauth2")
    ELSE IF opts.cookie.kind = "object" /\ opts.cookie.name # Null
         THEN opts.cookie.name
    ELSE "oauth2"

\* get cookieOptions()
CookieOptions(opts) ==
    IF opts.cookie.kind # "object" THEN [name |-> Null] ELSE [name |-> opts.cookie.name]

\* --------------------------------------------------------- Token Client
\* client.authorize(redirectUri, "code", {pkce: true, provider}): the k-th
\* challenge the client generates (random values: fresh on every call) and
\* the authorization URL; the URL may already carry a state parameter
ChallengeState(k) == "s" \o ToString(k)

ChallengeVerifier(k) == "v" \o ToString(k)

Challenge(k) == [state |-> ChallengeState(k), verifier |-> ChallengeVerifier(k)]

AuthorizeUrl(k, redirectUri, withState) ==
    <<[key |-> "client_id", value |-> ClientId],
      [key |-> "redirect_uri", value |-> redirectUri],
      [key |-> "response_type", value |-> "code"]>>
    \o (IF withState THEN <<[key |-> "state", value |-> "client-state"]>> ELSE <<>>)
    \o <<[key |-> "code_challenge_method", value |-> "S256"],
         [key |-> "code_challenge", value |-> "S256:" \o ChallengeVerifier(k)]>>

Authorize(k, redirectUri, withState) ==
    [challenge |-> Challenge(k), url |-> AuthorizeUrl(k, redirectUri, withState)]

\* client.exchange(code, redirectUri, verifier) answers {tokens} or {err}
NoTokens == [access |-> Null, refresh |-> Null]

TokensFor(code, verifier) ==
    [access |-> "access:" \o code \o ":" \o verifier,
     refresh |-> "refresh:" \o code \o ":" \o verifier]

ExchangeErrs ==
    { JsError("InvalidAuthorizationCodeError", "Invalid authorization code") }

ExchangeAnswers(code, redirectUri, verifier) ==
    { [err |-> NoError, tokens |-> TokensFor(code, verifier)] }
    \cup { [err |-> e, tokens |-> NoTokens] : e \in ExchangeErrs }

\* the caller-supplied verify callback resolves to a user or rejects
VerifyUser(args) == "user-of:" \o args.tokens.access

VerifyErrs == { JsError("Error", "User not found") }

\* ------------------------------------------------------------- state
VARIABLES
    options,    \* the ConstructorOptions of the strategy instance
    client,     \* who sends the requests: a browser that retains every
                \* Set-Cookie directive, a browser that keeps the last
                \* directive of a name, or an arbitrary HTTP client
    calls,      \* the authenticate calls: position, request, locals, outcome
    issued,     \* challenges the Token Client has generated so far
    jar,        \* the cookies the browser holds, oldest first
    refreshes,  \* the refreshToken calls, oldest first
    variant     \* the authenticate calls of the single-pair variant, oldest first

vars == <<options, client, calls, issued, jar, refreshes, variant>>

Calls == 1..MaxCalls

NoRequest ==
    [code |-> Null, state |-> Null, error |-> Null, error_description |-> Null,
     error_uri |-> Null, cookie |-> <<>>]

NoOutcome == [kind |-> "none", user |-> Null, error |-> NoError, response |-> NoResponse]

NoExchangeArgs == [code |-> Null, redirectUri |-> Null, verifier |-> Null]

NoExchangeResult == [err |-> NoError, tokens |-> NoTokens]

NoVerifyArgs == [request |-> NoRequest, tokens |-> NoTokens]

IdleCall ==
    [pc |-> "idle", request |-> NoRequest, store |-> EmptyStore,
     challenge |-> [state |-> Null, verifier |-> Null],
     exchangeArgs |-> NoExchangeArgs, exchangeResult |-> NoExchangeResult,
     verifyArgs |-> NoVerifyArgs,
     authorizeCalls |-> 0, exchangeCalls |-> 0, verifyCalls |-> 0,
     outcome |-> NoOutcome, followed |-> FALSE]

Init ==
    /\ options \in [cookie : CookieOptionChoices]
    /\ client \in {"retaining", "replacing", "arbitrary"}
    /\ calls = [c \in Calls |-> IdleCall]
    /\ issued = 0
    /\ jar = <<>>
    /\ refreshes = <<>>
    /\ variant = <<>>

\* --------------------------------------------------------- the requests
\* the authorization code the provider hands out for a flow
ProviderCode(state) == "code:" \o state

\* what an arbitrary HTTP client may put in the Cookie header
ForgedValues ==
    { MalformedValue,
      StoreSerialize(EmptyStore),
      StoreSerialize(<<[state |-> "s1", verifier |-> "x1"]>>),
      StoreSerialize(<<[state |-> "s1", verifier |-> ""]>>),
      StoreSerialize(<<[state |-> "s2", verifier |-> "x2"]>>) }

ForgedHeaders ==
    { <<>> }
    \cup { <<[name |-> n, value |-> v]>> : n \in {"oauth2", "auth"}, v \in ForgedValues }
    \cup { <<[name |-> n, value |-> StoreSerialize(<<[state |-> "s1", verifier |-> "x1"]>>)],
             [name |-> n, value |-> StoreSerialize(<<[state |-> "s2", verifier |-> "x2"]>>)]>>
           : n \in {"oauth2", "auth"} }

ArbitraryRequests ==
    [code : {Null, "", "c1"},
     state : {Null, "", "s1", "s2"},
     error : {Null, "", "access_denied"},
     error_description : {Null, "The user denied access"},
     error_uri : {Null, "https://auth.example.com/error"},
     cookie : ForgedHeaders]

\* a browser sends the cookies it holds; it starts a flow with a plain
\* request, and comes back from the provider with the state of a redirect
\* it has followed and the code the provider gave it
BrowserRequests ==
    { [NoRequest EXCEPT !.cookie = jar] }
    \cup { [NoRequest EXCEPT
                !.cookie = jar,
                !.state = ParamGet(calls[d].outcome.response.location, "state"),
                !.code = ProviderCode(ParamGet(calls[d].outcome.response.location, "state"))]
           : d \in {e \in Calls : calls[e].followed} }

\* the authorization URLs the Token Client may answer with: with or without
\* a state parameter of its own
AuthorizeUrlForms == IF client = "arbitrary" THEN BOOLEAN ELSE {FALSE}

Requests == IF client = "arbitrary" THEN ArbitraryRequests ELSE BrowserRequests

\* a call may begin once the calls before it have begun; an arbitrary
\* client is followed through one call
MayBegin(c) ==
    /\ calls[c].pc = "idle"
    /\ IF c = 1 THEN TRUE ELSE client # "arbitrary" /\ calls[c - 1].pc # "idle"

\* ------------------------------------------------------------ the browser
\* the cookies of a Set-Cookie header as the browser keeps them
RECURSIVE DropCookie(_, _)
DropCookie(cookies, name) ==
    IF cookies = <<>> THEN <<>>
    ELSE IF Head(cookies).name = name THEN DropCookie(Tail(cookies), name)
    ELSE <<Head(cookies)>> \o DropCookie(Tail(cookies), name)

KeepCookie(cookies, setCookie) ==
    (IF client = "replacing" THEN DropCookie(cookies, setCookie.name) ELSE cookies)
    \o <<[name |-> setCookie.name, value |-> setCookie.value]>>

\* the browser takes the Set-Cookie directive of a response it receives; an
\* arbitrary client holds no cookies
ReceiveResponse(cookies, response) ==
    IF client = "arbitrary" \/ response.setCookie = <<>> THEN cookies
    ELSE KeepCookie(cookies, response.setCookie[1])

\* ------------------------------------------- OpenAuthStrategy.authenticate
Raise(call, error) ==
    [call EXCEPT !.pc = "done",
                 !.outcome = [NoOutcome EXCEPT !.kind = "error", !.error = error]]

\* if (error) throw new OAuth2RequestError(error, description, uri, stateUrl)
ProviderError(c, request) ==
    /\ MayBegin(c)
    /\ Truthy(request.error)
    /\ calls' = [calls EXCEPT ![c] =
            Raise([@ EXCEPT !.request = request],
                  OAuth2RequestError(request.error, request.error_description,
                                     request.error_uri, request.state))]
    /\ jar' = ReceiveResponse(jar, calls'[c].outcome.response)
    /\ UNCHANGED <<options, client, issued, refreshes, variant>>

\* if (!code): createAuthorizationURL() calls client.authorize and awaits it
FlowStart(c, request) ==
    /\ MayBegin(c)
    /\ ~Truthy(request.error)
    /\ ~Truthy(request.code)
    /\ calls' = [calls EXCEPT ![c] =
            [@ EXCEPT !.request = request, !.pc = "authorize",
                      !.authorizeCalls = @ + 1]]
    /\ UNCHANGED <<options, client, issued, jar, refreshes, variant>>

\* createAuthorizationURL() that leaves the URL of the client as it came
CreateAuthorizationURLAsGiven(result) ==
    [state |-> result.challenge.state,
     verifier |-> result.challenge.verifier,
     url |-> result.url]

\* createAuthorizationURL(): the challenge and the URL with its state set
CreateAuthorizationURL(result) ==
    [state |-> result.challenge.state,
     verifier |-> result.challenge.verifier,
     url |-> ParamSet(result.url, "state", result.challenge.state)]

\* a hook that adds a parameter of its own
AuthorizationParamsWithScope(params, request) ==
    params \o <<[key |-> "scope", value |-> "openid"]>>

\* authorizationParams(params, request): new URLSearchParams(params)
AuthorizationParams(params, request) ==
    [i \in 1..Len(params) |-> [key |-> params[i].key, value |-> params[i].value]]

\* the new pair added to the store read under the default cookie name
FlowStartStoreDefaultName(request, cookieName, state, verifier) ==
    StoreSet(FromRequestDefault(request), state, verifier)

\* the new pair added to what the browser holds rather than to what the
\* request carries
FlowStartStoreFromJar(request, cookieName, state, verifier) ==
    StoreSet(StoreFromHeader(EmptyStore, jar, cookieName), state, verifier)

\* the store written by flow start: the request's store plus the new pair
FlowStartStore(request, cookieName, state, verifier) ==
    StoreSet(FromRequest(request, cookieName), state, verifier)

\* a flow start that returns its redirect instead of raising it
FlowStartRedirectReturned(call, opts, result) ==
    LET auth == CreateAuthorizationURL(result)
        location == AuthorizationParams(auth.url, call.request)
        store == FlowStartStore(call.request, CookieName(opts), auth.state, auth.verifier)
        setCookie == ToSetCookie(store, CookieName(opts), CookieOptions(opts))
    IN [call EXCEPT
            !.pc = "done",
            !.challenge = [state |-> auth.state, verifier |-> auth.verifier],
            !.store = store,
            !.outcome = [NoOutcome EXCEPT !.kind = "user", !.user = "response",
                                          !.response = Redirect(location, setCookie)]]

\* a flow start that writes its cookie under the default name
FlowStartRedirectDefaultName(call, opts, result) ==
    LET auth == CreateAuthorizationURL(result)
        location == AuthorizationParams(auth.url, call.request)
        store == FlowStartStore(call.request, CookieName(opts), auth.state, auth.verifier)
        setCookie == ToSetCookie(store, DefaultCookieName, CookieOptions(opts))
    IN [call EXCEPT
            !.pc = "done",
            !.challenge = [state |-> auth.state, verifier |-> auth.verifier],
            !.store = store,
            !.outcome = [NoOutcome EXCEPT !.kind = "redirect",
                                          !.response = Redirect(location, setCookie)]]

\* the authorize call answers: the rest of the flow-start branch
FlowStartRedirect(call, opts, result) ==
    LET auth == CreateAuthorizationURL(result)
        location == AuthorizationParams(auth.url, call.request)
        store == FlowStartStore(call.request, CookieName(opts), auth.state, auth.verifier)
        setCookie == ToSetCookie(store, CookieName(opts), CookieOptions(opts))
    IN [call EXCEPT
            !.pc = "done",
            !.challenge = [state |-> auth.state, verifier |-> auth.verifier],
            !.store = store,
            !.outcome = [NoOutcome EXCEPT !.kind = "redirect",
                                          !.response = Redirect(location, setCookie)]]

AuthorizeAnswer(c, withState) ==
    /\ calls[c].pc = "authorize"
    /\ issued < MaxCalls
    /\ issued' = issued + 1
    /\ LET done == FlowStartRedirect(calls[c], options,
                                     Authorize(issued + 1, RedirectUri, withState))
       IN /\ calls' = [calls EXCEPT ![c] = [done EXCEPT !.followed = client # "arbitrary"]]
          /\ jar' = ReceiveResponse(jar, done.outcome.response)
    /\ UNCHANGED <<options, client, refreshes, variant>>

\* the store the completion path reads
CallbackStore(request, opts) == FromRequestDefault(request)

\* validateAuthorizationCode(code, codeVerifier): the arguments of exchange
ValidateAuthorizationCode(code, codeVerifier, opts) ==
    [code |-> code, redirectUri |-> RedirectUri, verifier |-> codeVerifier]

\* the checks without the membership check of the state
CallbackChecksNoMembership(call, opts) ==
    LET request == call.request
        store == CallbackStore(request, opts)
        codeVerifier == StoreGet(store, request.state)
        loaded == [call EXCEPT !.store = store]
    IN IF ~Truthy(request.state) THEN Raise(loaded, MissingStateError)
       ELSE IF ~StoreHasAny(store) THEN Raise(loaded, MissingStoreError)
       ELSE IF ~Truthy(codeVerifier) THEN Raise(loaded, MissingVerifierError)
       ELSE [loaded EXCEPT
                !.pc = "exchange",
                !.exchangeArgs = ValidateAuthorizationCode(request.code, codeVerifier, opts),
                !.exchangeCalls = @ + 1]

\* the checks with the store looked at before the state of the URL
CallbackChecksStoreFirst(call, opts) ==
    LET request == call.request
        store == CallbackStore(request, opts)
        codeVerifier == StoreGet(store, request.state)
        loaded == [call EXCEPT !.store = store]
    IN IF ~StoreHasAny(store) THEN Raise(loaded, MissingStoreError)
       ELSE IF ~Truthy(request.state) THEN Raise(loaded, MissingStateError)
       ELSE IF ~StoreHas(store, request.state) THEN Raise(loaded, StateMismatchError)
       ELSE IF ~Truthy(codeVerifier) THEN Raise(loaded, MissingVerifierError)
       ELSE [loaded EXCEPT
                !.pc = "exchange",
                !.exchangeArgs = ValidateAuthorizationCode(request.code, codeVerifier, opts),
                !.exchangeCalls = @ + 1]

\* the checks with the verifier taken from the first pair of the store
CallbackChecksFirstVerifier(call, opts) ==
    LET request == call.request
        store == CallbackStore(request, opts)
        codeVerifier == IF StoreHasAny(store) THEN store[1].verifier ELSE Null
        loaded == [call EXCEPT !.store = store]
    IN IF ~Truthy(request.state) THEN Raise(loaded, MissingStateError)
       ELSE IF ~StoreHasAny(store) THEN Raise(loaded, MissingStoreError)
       ELSE IF ~StoreHas(store, request.state) THEN Raise(loaded, StateMismatchError)
       ELSE IF ~Truthy(codeVerifier) THEN Raise(loaded, MissingVerifierError)
       ELSE [loaded EXCEPT
                !.pc = "exchange",
                !.exchangeArgs = ValidateAuthorizationCode(request.code, codeVerifier, opts),
                !.exchangeCalls = @ + 1]

\* the checks of the completion path, in the order of the code
CallbackChecks(call, opts) ==
    LET request == call.request
        store == CallbackStore(request, opts)
        codeVerifier == StoreGet(store, request.state)
        loaded == [call EXCEPT !.store = store]
    IN IF ~Truthy(request.state) THEN Raise(loaded, MissingStateError)
       ELSE IF ~StoreHasAny(store) THEN Raise(loaded, MissingStoreError)
       ELSE IF ~StoreHas(store, request.state) THEN Raise(loaded, StateMismatchError)
       ELSE IF ~Truthy(codeVerifier) THEN Raise(loaded, MissingVerifierError)
       ELSE [loaded EXCEPT
                !.pc = "exchange",
                !.exchangeArgs = ValidateAuthorizationCode(request.code, codeVerifier, opts),
                !.exchangeCalls = @ + 1]

\* code present: the store is read and checked; client.exchange is awaited
Callback(c, request) ==
    /\ MayBegin(c)
    /\ ~Truthy(request.error)
    /\ Truthy(request.code)
    /\ calls' = [calls EXCEPT ![c] = CallbackChecks([@ EXCEPT !.request = request], options)]
    /\ jar' = ReceiveResponse(jar, calls'[c].outcome.response)
    /\ UNCHANGED <<options, client, issued, refreshes, variant>>

\* the answer of the exchange taken without looking at its err
AfterExchangeIgnoreErr(call, result) ==
    [call EXCEPT !.exchangeResult = result,
                 !.pc = "verify",
                 !.verifyArgs = [request |-> call.request, tokens |-> result.tokens],
                 !.verifyCalls = @ + 1]

\* a failed exchange tried once more before its err is raised
AfterExchangeRetry(call, result) ==
    IF result.err # NoError /\ call.exchangeCalls < 2
    THEN [call EXCEPT !.exchangeResult = result, !.exchangeCalls = @ + 1]
    ELSE IF result.err # NoError
    THEN Raise([call EXCEPT !.exchangeResult = result], result.err)
    ELSE [call EXCEPT !.exchangeResult = result,
                      !.pc = "verify",
                      !.verifyArgs = [request |-> call.request, tokens |-> result.tokens],
                      !.verifyCalls = @ + 1]

\* if (result.err) throw result.err; otherwise verify is called and awaited
AfterExchange(call, result) ==
    IF result.err # NoError
    THEN Raise([call EXCEPT !.exchangeResult = result], result.err)
    ELSE [call EXCEPT !.exchangeResult = result,
                      !.pc = "verify",
                      !.verifyArgs = [request |-> call.request, tokens |-> result.tokens],
                      !.verifyCalls = @ + 1]

ExchangeAnswer(c, result) ==
    /\ calls[c].pc = "exchange"
    /\ calls' = [calls EXCEPT ![c] = AfterExchange(@, result)]
    /\ jar' = ReceiveResponse(jar, calls'[c].outcome.response)
    /\ UNCHANGED <<options, client, issued, refreshes, variant>>

\* the user of verify awaited and dropped
ReturnUserUndefined(call, user) ==
    [call EXCEPT !.pc = "done",
                 !.outcome = [NoOutcome EXCEPT !.kind = "user", !.user = Null]]

\* the user returned together with a directive that empties the cookie
ReturnUserClearsCookie(call, user) ==
    [call EXCEPT !.pc = "done",
                 !.outcome = [NoOutcome EXCEPT
                    !.kind = "user", !.user = user,
                    !.response = [NoResponse EXCEPT !.setCookie =
                        <<ToSetCookie(EmptyStore, DefaultCookieName, [name |-> Null])>>]]]

\* let user = await this.verify(...); return user
ReturnUser(call, user) ==
    [call EXCEPT !.pc = "done",
                 !.outcome = [NoOutcome EXCEPT !.kind = "user", !.user = user]]

VerifyResolves(c, user) ==
    /\ calls[c].pc = "verify"
    /\ calls' = [calls EXCEPT ![c] = ReturnUser(@, user)]
    /\ jar' = ReceiveResponse(jar, calls'[c].outcome.response)
    /\ UNCHANGED <<options, client, issued, refreshes, variant>>

VerifyRejects(c, error) ==
    /\ calls[c].pc = "verify"
    /\ calls' = [calls EXCEPT ![c] = Raise(@, error)]
    /\ jar' = ReceiveResponse(jar, calls'[c].outcome.response)
    /\ UNCHANGED <<options, client, issued, refreshes, variant>>

Next ==
    \/ \E c \in {d \in Calls : MayBegin(d)}, request \in Requests :
            ProviderError(c, request)
    \/ \E c \in {d \in Calls : MayBegin(d)}, request \in Requests :
            FlowStart(c, request)
    \/ \E c \in {d \in Calls : MayBegin(d)}, request \in Requests :
            Callback(c, request)
    \/ \E c \in Calls, withState \in AuthorizeUrlForms : AuthorizeAnswer(c, withState)
    \/ \E c \in Calls :
        \E result \in ExchangeAnswers(calls[c].exchangeArgs.code,
                                      calls[c].exchangeArgs.redirectUri,
                                      calls[c].exchangeArgs.verifier) :
            ExchangeAnswer(c, result)
    \/ \E c \in Calls : VerifyResolves(c, VerifyUser(calls[c].verifyArgs))
    \/ \E c \in Calls, error \in VerifyErrs : VerifyRejects(c, error)

Spec == Init /\ [][Next]_vars

\* ================================================================ claims
IsFlowStartRequest(r) == ~Truthy(r.error) /\ ~Truthy(r.code)

IsCallbackRequest(r) == ~Truthy(r.error) /\ Truthy(r.code)

Begun == {c \in Calls : calls[c].pc # "idle"}

Done == {c \in Calls : calls[c].pc = "done"}

\* the store a Set-Cookie directive carries
CookieStore(setCookie) == StoreParse(EmptyStore, setCookie.value)

\* C1: a request whose URL has neither error nor code, whatever its Cookie
\* header, never yields a user and never reaches verify (nor the exchange);
\* once the Token Client has answered, the call has raised a 302 redirect to
\* the authorization URL (response_type=code, S256, a challenge, the client
\* id and the redirect URI) with one Set-Cookie under the configured cookie
\* name whose value holds the pending-state store.
C1_FlowStartRedirects ==
    \A c \in Begun :
        LET call == calls[c]
            r == call.outcome.response
        IN (call.request.error = Null /\ call.request.code = Null) =>
            /\ call.pc \in {"authorize", "done"}
            /\ call.outcome.kind \in {"none", "redirect"}
            /\ call.verifyCalls = 0 /\ call.exchangeCalls = 0
            /\ call.pc = "done" =>
                /\ call.outcome.kind = "redirect"
                /\ r.status = 302
                /\ ParamGet(r.location, "response_type") = "code"
                /\ ParamGet(r.location, "code_challenge_method") = "S256"
                /\ Truthy(ParamGet(r.location, "code_challenge"))
                /\ ParamGet(r.location, "client_id") = ClientId
                /\ ParamGet(r.location, "redirect_uri") = RedirectUri
                /\ Len(r.setCookie) = 1
                /\ r.setCookie[1].name =
                        (IF options.cookie.kind = "undefined" \/ options.cookie.name = ""
                         THEN "oauth2" ELSE options.cookie.name)
                /\ r.setCookie[1].value.wellFormed
                /\ StoreHasAny(CookieStore(r.setCookie[1]))
                /\ r.setCookie[1].httpOnly /\ r.setCookie[1].path = "/"
                /\ r.setCookie[1].sameSite = "Lax"

\* C1 witness: a flow start on a request that carries a cookie, under a
\* cookie name that is not the default, has raised its redirect
C1_Witness ==
    \E c \in Done :
        /\ calls[c].request.error = Null /\ calls[c].request.code = Null
        /\ calls[c].request.cookie # <<>>
        /\ options.cookie.name = "auth"
        /\ calls[c].outcome.kind = "redirect"

\* C2: in every flow-start redirect the state parameter of the Location is
\* the state of a pair of the Set-Cookie, that state is one the Token Client
\* generated, and the verifier stored under it is the verifier generated
\* together with it.
C2_StateRoundTrip ==
    \A c \in Done :
        calls[c].outcome.kind = "redirect" =>
            LET r == calls[c].outcome.response
                state == ParamGet(r.location, "state")
                store == CookieStore(r.setCookie[1])
            IN /\ StoreHas(store, state)
               /\ \E k \in 1..issued :
                    /\ state = ChallengeState(k)
                    /\ StoreGet(store, state) = ChallengeVerifier(k)

\* C2 witness: a redirect whose request already held a pair under the very
\* state the Token Client generated, and whose authorization URL came with a
\* state parameter of the client's own
C2_Witness ==
    \E c \in Done :
        /\ calls[c].outcome.kind = "redirect"
        /\ StoreHas(FromRequest(calls[c].request, CookieName(options)),
                    ParamGet(calls[c].outcome.response.location, "state"))

\* the flow-start calls whose redirect the browser has followed
Followed == {c \in Calls : calls[c].followed}

\* the errors of the four checks of the completion path
CheckErrors ==
    {MissingStateError, MissingStoreError, StateMismatchError, MissingVerifierError}

\* C3: concurrent flow starts yield pairwise distinct (state, verifier)
\* pairs; and when the browser retains every Set-Cookie directive and sends
\* them all, each callback carrying the state of one of the flows passes the
\* checks, exchanges with that flow's own verifier, invokes verify at most
\* once, and ends in a user (unless the Token Client or verify fail) whose
\* tokens were exchanged with that flow's verifier.
C3_ConcurrentFlowsComplete ==
    /\ \A c, d \in Done :
        (c # d /\ calls[c].outcome.kind = "redirect" /\ calls[d].outcome.kind = "redirect") =>
            /\ calls[c].challenge.state # calls[d].challenge.state
            /\ calls[c].challenge.verifier # calls[d].challenge.verifier
    /\ client = "retaining" =>
        \A c \in Begun, f \in Followed :
            LET call == calls[c]
                flow == calls[f]
            IN (IsCallbackRequest(call.request)
                    /\ call.request.state = flow.challenge.state) =>
                /\ call.outcome.error \notin CheckErrors
                /\ call.exchangeCalls > 0 =>
                        call.exchangeArgs.verifier = flow.challenge.verifier
                /\ call.verifyCalls <= 1
                /\ call.pc = "done" =>
                        \/ call.outcome.error \in ExchangeErrs \cup VerifyErrs
                        \/ /\ call.outcome.kind = "user"
                           /\ call.verifyCalls = 1
                           /\ call.verifyArgs.tokens =
                                TokensFor(call.request.code, flow.challenge.verifier)

\* C4: the exchange and verify are invoked only by a callback request whose
\* state is a key of the store the call read from that request's Cookie
\* header; a callback whose (non-empty) state is not in the non-empty store
\* it read fails with the state-mismatch error and reaches neither.
C4_StateMustBeInStore ==
    \A c \in Begun :
        LET call == calls[c]
            r == call.request
        IN /\ (call.exchangeCalls > 0 \/ call.verifyCalls > 0) =>
                /\ IsCallbackRequest(r)
                /\ StoreHas(call.store, r.state)
                /\ \A i \in 1..Len(call.store) :
                    \E j \in 1..Len(r.cookie) :
                        /\ r.cookie[j].value.wellFormed
                        /\ \E m \in 1..Len(r.cookie[j].value.entries) :
                                r.cookie[j].value.entries[m].state = call.store[i].state
           /\ (IsCallbackRequest(r) /\ Truthy(r.state)
                    /\ StoreHasAny(call.store) /\ ~StoreHas(call.store, r.state)) =>
                /\ call.pc = "done"
                /\ call.outcome.kind = "error"
                /\ call.outcome.error = StateMismatchError
                /\ call.exchangeCalls = 0 /\ call.verifyCalls = 0

\* C4 witness: a callback whose state is not among the states of the
\* non-empty store of its cookie has ended
C4_Witness ==
    \E c \in Done :
        /\ IsCallbackRequest(calls[c].request)
        /\ Truthy(calls[c].request.state)
        /\ StoreHasAny(calls[c].store)
        /\ ~StoreHas(calls[c].store, calls[c].request.state)

\* C5: once a callback with state S has completed a flow (a user was
\* returned), no callback that arrives later with the same state S reaches
\* the token exchange.
C5_StateSingleUse ==
    [][\A d \in Calls :
            (calls[d].pc = "idle" /\ calls'[d].pc = "exchange") =>
                ~\E c \in Calls :
                    /\ calls[c].outcome.kind = "user"
                    /\ calls[c].request.state = calls'[d].request.state]_vars

\* C6: a callback request fails in this order: no state in the URL gives the
\* missing-state error whatever the cookie holds; else an absent or empty
\* store gives the missing-store error; else a state that is not in the
\* store gives the state-mismatch error; else an empty verifier under the
\* state gives the missing-verifier error.  In these cases the call has
\* ended with that error and no exchange; in every other case none of the
\* four errors is raised and the exchange is called.
C6_CheckOrder ==
    \A c \in Begun :
        LET call == calls[c]
            r == call.request
            expected ==
                IF r.state = Null \/ r.state = "" THEN MissingStateError
                ELSE IF call.store = EmptyStore THEN MissingStoreError
                ELSE IF r.state \notin StoreStates(call.store) THEN StateMismatchError
                ELSE IF StoreGet(call.store, r.state) \in {Null, ""}
                     THEN MissingVerifierError
                ELSE NoError
        IN IsCallbackRequest(r) =>
            IF expected # NoError
            THEN /\ call.pc = "done"
                 /\ call.outcome.kind = "error"
                 /\ call.outcome.error = expected
                 /\ call.exchangeCalls = 0 /\ call.verifyCalls = 0
            ELSE /\ call.outcome.error \notin CheckErrors
                 /\ call.exchangeCalls = 1

\* C6 witness: a callback whose state is in the store, with an empty
\* verifier under it, has ended
C6_Witness ==
    \E c \in Done :
        /\ IsCallbackRequest(calls[c].request)
        /\ StoreHas(calls[c].store, calls[c].request.state)
        /\ StoreGet(calls[c].store, calls[c].request.state) = ""

\* C7: a request with a non-empty error parameter ends in an
\* OAuth2RequestError that holds the error code, error_description,
\* error_uri and state as given (null when absent), whether or not code and
\* state are present and whatever the cookie holds; no Token Client call, no
\* verify, no store read, no response and no cookie.
C7_ProviderError ==
    \A c \in Begun :
        LET call == calls[c]
            r == call.request
        IN (r.error # Null /\ r.error # "") =>
            /\ call.pc = "done"
            /\ call.outcome.kind = "error"
            /\ call.outcome.error.class = "OAuth2RequestError"
            /\ call.outcome.error.code = r.error
            /\ call.outcome.error.description = r.error_description
            /\ call.outcome.error.uri = r.error_uri
            /\ call.outcome.error.state = r.state
            /\ call.authorizeCalls = 0 /\ call.exchangeCalls = 0 /\ call.verifyCalls = 0
            /\ call.store = EmptyStore
            /\ call.outcome.response = NoResponse
            /\ jar = <<>>

\* C7 witness: a provider error on a request that also has a code and a
\* cookie but no state and no error_uri
C7_Witness ==
    \E c \in Done :
        /\ Truthy(calls[c].request.error)
        /\ Truthy(calls[c].request.code)
        /\ calls[c].request.state = Null
        /\ calls[c].request.error_description # Null
        /\ calls[c].request.error_uri = Null
        /\ calls[c].request.cookie # <<>>

\* C8: a call that has ended has exactly one of the three outcomes: a user
\* (no error, no response), a redirect response (no user, no error) or an
\* error (no user, no response); a redirect only on the flow-start path and
\* a user only on the completion path; a call that has not ended has none.
C8_OneOutcome ==
    \A c \in Calls :
        LET call == calls[c]
            o == call.outcome
        IN /\ call.pc = "done" <=> o.kind \in {"user", "redirect", "error"}
           /\ call.pc # "done" => o = NoOutcome
           /\ o.kind = "user" =>
                /\ o.user # Null /\ o.error = NoError /\ o.response = NoResponse
                /\ IsCallbackRequest(call.request)
           /\ o.kind = "redirect" =>
                /\ o.user = Null /\ o.error = NoError /\ o.response.status = 302
                /\ IsFlowStartRequest(call.request)
           /\ o.kind = "error" =>
                /\ o.user = Null /\ o.error # NoError /\ o.response = NoResponse

\* C8 witness: one call has returned a user, one has raised a redirect and
\* one has raised an error
C8_Witness ==
    /\ \E c \in Done : calls[c].outcome.kind = "user"
    /\ \E c \in Done : calls[c].outcome.kind = "redirect"
    /\ \E c \in Done : calls[c].outcome.kind = "error"

\* C9: when the exchange answers with an err, authenticate raises exactly
\* that error value, verify is not invoked and the exchange was called once.
C9_ExchangeErrPropagates ==
    \A c \in Calls :
        LET call == calls[c]
        IN call.exchangeResult.err # NoError =>
            /\ call.pc = "done"
            /\ call.outcome.kind = "error"
            /\ call.outcome.error = call.exchangeResult.err
            /\ call.verifyCalls = 0
            /\ call.exchangeCalls = 1

\* C9 witness: an exchange has answered with an err
C9_Witness ==
    \E c \in Done : calls[c].exchangeResult.err \in ExchangeErrs

\* C10: verify is invoked at most once, only after the exchange has answered
\* without err, with the request of the call and exactly the tokens the
\* exchange returned; a returned user is the value verify resolved to for
\* these arguments; after verify was invoked the only error raised is the
\* one verify rejected with.
C10_VerifyOnceWithTokens ==
    \A c \in Calls :
        LET call == calls[c]
        IN /\ call.verifyCalls <= 1
           /\ call.verifyCalls = 1 =>
                /\ call.exchangeCalls = 1
                /\ call.exchangeResult.err = NoError
                /\ call.exchangeResult.tokens =
                        TokensFor(call.exchangeArgs.code, call.exchangeArgs.verifier)
                /\ call.verifyArgs.request = call.request
                /\ call.verifyArgs.tokens = call.exchangeResult.tokens
                /\ call.outcome.kind = "error" => call.outcome.error \in VerifyErrs
           /\ call.outcome.kind = "user" =>
                /\ call.verifyCalls = 1
                /\ call.outcome.user =
                        VerifyUser([request |-> call.request,
                                    tokens |-> call.exchangeResult.tokens])

\* C10 witness: a completion has returned the user of its verify callback
C10_Witness ==
    \E c \in Done : calls[c].outcome.kind = "user" /\ calls[c].verifyCalls = 1


\* C11: the exchange is called with the code of the request URL, the
\* configured redirect URI and the verifier that the request's cookie holds
\* under the request's state: a pair (state of the URL, that verifier) is in
\* the Cookie header and it is the pair the loaded store keeps for the state.
C11_ExchangeArguments ==
    \A c \in Calls :
        LET call == calls[c]
            r == call.request
        IN call.exchangeCalls > 0 =>
            /\ call.exchangeArgs.code = r.code
            /\ call.exchangeArgs.redirectUri = RedirectUri
            /\ \E j \in 1..Len(r.cookie) :
                /\ r.cookie[j].value.wellFormed
                /\ \E m \in 1..Len(r.cookie[j].value.entries) :
                    r.cookie[j].value.entries[m] =
                        [state |-> r.state, verifier |-> call.exchangeArgs.verifier]
            /\ \A i \in 1..Len(call.store) :
                call.store[i].state = r.state =>
                    call.store[i].verifier = call.exchangeArgs.verifier

\* C11 witness: an exchange for a state that is not the first of several
\* states of the store
C11_Witness ==
    \E c \in Calls :
        /\ calls[c].exchangeCalls > 0
        /\ Len(calls[c].store) > 1
        /\ calls[c].store[1].state # calls[c].request.state


\* the store a flow-start call found in the cookie of its request
IncomingStore(c) == FromRequest(calls[c].request, CookieName(options))

\* the flow-start calls that have raised their redirect
Redirected == {c \in Done : calls[c].outcome.kind = "redirect"}

\* the store written by a flow start holds every pair its request held, in
\* their order, and after them exactly the one new pair (the state of the
\* new pair being one the request did not hold)
StoreAccumulates(c) ==
    LET old == IncomingStore(c)
        new == CookieStore(calls[c].outcome.response.setCookie[1])
        state == ParamGet(calls[c].outcome.response.location, "state")
    IN ~StoreHas(old, state) =>
        /\ Len(new) = Len(old) + 1
        /\ \A i \in 1..Len(old) : new[i] = old[i]
        /\ new[Len(new)].state = state
        /\ Truthy(new[Len(new)].verifier)

\* a callback that is sent the cookie of flow start f, for a state that the
\* request of f already held, finds the verifier f's request held for it
OlderStateStillCompletes(f, d) ==
    LET old == IncomingStore(f)
        sent == calls[f].outcome.response.setCookie[1]
        r == calls[d].request
    IN (/\ IsCallbackRequest(r)
        /\ StoreHas(old, r.state)
        /\ ~StoreHas(old, ParamGet(calls[f].outcome.response.location, "state"))
        /\ \E j \in 1..Len(r.cookie) :
                r.cookie[j] = [name |-> sent.name, value |-> sent.value]) =>
            /\ calls[d].outcome.error \notin CheckErrors
            /\ calls[d].exchangeCalls = 1
            /\ calls[d].exchangeArgs.verifier = StoreGet(old, r.state)

\* C12: flow start accumulates: the store it writes holds every pair of the
\* incoming cookie unchanged plus exactly the one new pair, so that a
\* callback for any of the older states that is sent the new cookie still
\* finds its verifier.
C12_FlowStartAccumulates ==
    /\ \A c \in Redirected : StoreAccumulates(c)
    /\ client # "arbitrary" =>
        \A f \in Redirected, d \in Begun : OlderStateStillCompletes(f, d)


\* two different calls that were given the same request
SameRequest(c, d) ==
    /\ c # d
    /\ calls[c].pc # "idle" /\ calls[d].pc # "idle"
    /\ calls[c].request = calls[d].request

\* the parts of a redirect that do not come from the challenge the Token
\* Client answered with: the authorization parameters besides the state and
\* the code challenge, the pairs the store held before the new one, and the
\* name and attributes of the cookie
RedirectBesidesChallenge(c) ==
    LET response == calls[c].outcome.response
        setCookie == response.setCookie[1]
        store == CookieStore(setCookie)
    IN [location |-> DropKey(DropKey(response.location, "state"), "code_challenge"),
        older |-> SubSeq(store, 1, Len(store) - 1),
        cookie |-> [setCookie EXCEPT !.value = Null]]

\* the parts of a redirect that come from the challenge of the call itself
RedirectOfOwnChallenge(c) ==
    LET response == calls[c].outcome.response
        store == CookieStore(response.setCookie[1])
    IN /\ ParamGet(response.location, "state") = calls[c].challenge.state
       /\ Len(store) > 0
       /\ store[Len(store)] = calls[c].challenge

\* the exchange of a call has been answered
Exchanged(c) == calls[c].exchangeCalls > 0 /\ calls[c].pc \in {"verify", "done"}

\* C13: authenticate calls share no mutable state: in every interleaving,
\* two calls given the same request pass the same arguments to the Token
\* Client and to verify and end in the same outcome whenever they were given
\* the same answers; two flow starts differ only in the challenge each got.
C13_CallsAreIndependent ==
    \A c \in Calls : \A d \in c..MaxCalls : SameRequest(c, d) =>
        /\ calls[c].authorizeCalls = calls[d].authorizeCalls
        /\ calls[c].exchangeCalls = calls[d].exchangeCalls
        /\ calls[c].exchangeArgs = calls[d].exchangeArgs
        /\ (c \in Redirected /\ d \in Redirected) =>
                /\ RedirectBesidesChallenge(c) = RedirectBesidesChallenge(d)
                /\ RedirectOfOwnChallenge(c)
                /\ RedirectOfOwnChallenge(d)
        /\ (Exchanged(c) /\ Exchanged(d)
                /\ calls[c].exchangeResult = calls[d].exchangeResult) =>
                /\ calls[c].verifyCalls = calls[d].verifyCalls
                /\ calls[c].verifyArgs = calls[d].verifyArgs
        /\ (c \in Done /\ d \in Done
                /\ calls[c].authorizeCalls = 0
                /\ calls[c].exchangeResult = calls[d].exchangeResult
                /\ calls[c].outcome.kind = calls[d].outcome.kind) =>
                calls[c].outcome = calls[d].outcome

C13_Witness ==
    /\ \E c \in Redirected : \E d \in Redirected :
            /\ SameRequest(c, d)
            /\ jar # calls[c].request.cookie
    /\ \E c \in Done : \E d \in Done :
            /\ SameRequest(c, d)
            /\ calls[c].outcome.kind = "user"
            /\ calls[d].outcome.kind = "user"


\* call d is the callback of flow start f: it carries the state of f's
\* redirect and the cookie f's redirect set
CallbackOf(d, f) ==
    LET sent == calls[f].outcome.response.setCookie[1]
        r == calls[d].request
    IN /\ f \in Redirected
       /\ d \in Begun
       /\ IsCallbackRequest(r)
       /\ r.state = calls[f].challenge.state
       /\ \E j \in 1..Len(r.cookie) :
            r.cookie[j] = [name |-> sent.name, value |-> sent.value]

\* C15: for every configured cookie name the completion path reads the
\* store from the cookie name under which flow start wrote it, so a callback
\* carrying the cookie and the state of its own flow start finds the pair of
\* that flow and passes the checks, also when the name is not the default.
C15_SameCookieName ==
    \A f \in Calls : \A d \in Calls : CallbackOf(d, f) =>
        /\ StoreGet(calls[d].store, calls[d].request.state) = calls[f].challenge.verifier
        /\ calls[d].outcome.error \notin CheckErrors
        /\ calls[d].exchangeCalls = 1


\* the pairs the browser holds under the configured cookie name
HeldPairs(cookies) == StoreFromHeader(EmptyStore, cookies, CookieName(options))

\* a step of a call that was given a callback request
CallbackStep(c) == calls'[c] # calls[c] /\ IsCallbackRequest(calls'[c].request)

\* a call given a callback request raises no redirect and no other response
CallbackRaisesNoResponse ==
    \A c \in Begun : IsCallbackRequest(calls[c].request) =>
        /\ calls[c].outcome.kind # "redirect"
        /\ calls[c].outcome.response = NoResponse

\* C16: the completion path leaves the client's pending-state cookie
\* unchanged: a callback request, whether it ends in a user or in an error,
\* never raises a redirect and never emits a Set-Cookie, and the pairs the
\* client holds are the same before and after every step of a callback.
C16_CallbackKeepsCookie ==
    /\ []CallbackRaisesNoResponse
    /\ [][\A c \in Calls : CallbackStep(c) =>
            /\ jar' = jar
            /\ HeldPairs(jar') = HeldPairs(jar)]_vars

C16_Witness ==
    /\ jar # <<>>
    /\ \E c \in Done : \E d \in Done :
        /\ IsCallbackRequest(calls[c].request)
        /\ IsCallbackRequest(calls[d].request)
        /\ calls[c].request.cookie = jar
        /\ calls[d].request.cookie = jar
        /\ calls[c].outcome.kind = "user"
        /\ calls[d].outcome.kind = "error"


\* C17: each authenticate call invokes the Token Client at most once and
\* never retries: exactly one authorize and no exchange on flow start, at
\* most one exchange and no authorize on completion, and no Token Client
\* call at all when the request carries error or fails a state, store or
\* verifier check.
C17_TokenClientCalledOnce ==
    \A c \in Begun :
        LET call == calls[c]
        IN /\ call.authorizeCalls + call.exchangeCalls <= 1
           /\ IsFlowStartRequest(call.request) =>
                call.authorizeCalls = 1 /\ call.exchangeCalls = 0
           /\ IsCallbackRequest(call.request) =>
                call.authorizeCalls = 0 /\ call.exchangeCalls <= 1
           /\ (Truthy(call.request.error) \/ call.outcome.error \in CheckErrors) =>
                /\ call.authorizeCalls = 0
                /\ call.exchangeCalls = 0
                /\ call.pc = "done"

C17_Witness ==
    /\ \E c \in Done :
        /\ calls[c].exchangeResult.err # NoError
        /\ calls[c].outcome.error = calls[c].exchangeResult.err
        /\ calls[c].exchangeCalls = 1
    /\ \E c \in Done : calls[c].authorizeCalls = 1
    /\ \E c \in Done : calls[c].outcome.error \in CheckErrors


\* the Cookie header of a request holds no usable store under the configured
\* name: no cookie of that name, or only malformed or empty values
NoUsableCookie(r) ==
    \A j \in 1..Len(r.cookie) :
        r.cookie[j].name = CookieName(options) =>
            r.cookie[j].value \in {MalformedValue, StoreSerialize(EmptyStore)}

\* C18: flow start never fails because of the incoming cookie: for a request
\* without code and error whose cookie is absent, empty or malformed, the
\* store is loaded as empty and authenticate raises no error; once the Token
\* Client has answered it has raised the 302 redirect, whose one cookie
\* holds exactly the one new pair.
C18_FlowStartToleratesCookie ==
    \A c \in Begun :
        LET call == calls[c]
            response == call.outcome.response
        IN (IsFlowStartRequest(call.request) /\ NoUsableCookie(call.request)) =>
            /\ IncomingStore(c) = EmptyStore
            /\ call.outcome.kind # "error"
            /\ call.pc \in {"authorize", "done"}
            /\ call.pc = "done" =>
                /\ call.outcome.kind = "redirect"
                /\ response.status = 302
                /\ Len(response.setCookie) = 1
                /\ response.setCookie[1].name = CookieName(options)
                /\ call.store = <<call.challenge>>
                /\ CookieStore(response.setCookie[1]) = <<call.challenge>>
                /\ Truthy(call.challenge.state) /\ Truthy(call.challenge.verifier)
                /\ ParamGet(response.location, "state") = call.challenge.state

C18_Witness ==
    \E c \in Redirected : \E j \in 1..Len(calls[c].request.cookie) :
        /\ calls[c].request.cookie[j].name = CookieName(options)
        /\ calls[c].request.cookie[j].value = MalformedValue
        /\ NoUsableCookie(calls[c].request)


\* the authorization URLs the Token Client may have answered with when it
\* gave the challenge of call c
AnsweredUrls(c) ==
    {AuthorizeUrl(k, RedirectUri, withState) :
        k \in {i \in 1..MaxCalls : Challenge(i) = calls[c].challenge},
        withState \in BOOLEAN}

\* the number of parameters named key
ParamCount(params, key) == Cardinality({i \in 1..Len(params) : params[i].key = key})

\* C20: with the default extension hook, the query string of the flow-start
\* redirect is exactly the query string of the authorization URL the Token
\* Client returned with state set to the state of the challenge: no other
\* parameter is added, dropped, changed or moved.
C20_DefaultHookIsIdentity ==
    \A c \in Redirected :
        \E url \in AnsweredUrls(c) :
            LET location == calls[c].outcome.response.location
            IN /\ location = ParamSet(url, "state", calls[c].challenge.state)
               /\ DropKey(location, "state") = DropKey(url, "state")
               /\ ParamCount(location, "state") = 1
               /\ ParamGet(location, "state") = calls[c].challenge.state
               /\ Len(location) = Len(url) + (IF ParamCount(url, "state") = 0 THEN 1 ELSE 0)

C20_Witness ==
    \E c \in Redirected :
        LET location == calls[c].outcome.response.location
        IN /\ Len(location) = Len(AuthorizeUrl(1, RedirectUri, TRUE))
           /\ location[Len(location)].key = "code_challenge"
           /\ ParamGet(location, "state") = calls[c].challenge.state


\* --------------------------------------- OpenAuthStrategy.refreshToken
\* the refresh tokens and the optional access tokens (Null: none given)
RefreshTokens == {"r1", "r2"}

AccessTokens == {Null, "", "a1"}

RefreshErrs == { JsError("InvalidRefreshTokenError", "Invalid refresh token") }

\* client.refresh(refresh, {access}) answers {err}, {err: false, tokens} or,
\* without having refreshed anything, {err: false}
RefreshAnswers(refresh, access) ==
    { [err |-> e, tokens |-> NoTokens] : e \in RefreshErrs }
    \cup { [err |-> NoError,
            tokens |-> [access |-> "access-after:" \o refresh,
                        refresh |-> "refresh-after:" \o refresh]] }
    \cup { [err |-> NoError, tokens |-> NoTokens] }

NoRefreshOutcome == [kind |-> "none", tokens |-> NoTokens, error |-> NoError]

NoTokensReturnedError == JsError("Error", "No tokens returned")

\* the result of the client handed on as it came, apart from its err
RefreshTokenDelegates(call, result) ==
    IF result.err # NoError
    THEN [call EXCEPT !.pc = "done", !.result = result,
                      !.outcome = [NoRefreshOutcome EXCEPT !.kind = "error",
                                                           !.error = result.err]]
    ELSE [call EXCEPT !.pc = "done", !.result = result,
                      !.outcome = [NoRefreshOutcome EXCEPT !.kind = "tokens",
                                                           !.tokens = result.tokens]]

\* the body of refreshToken after client.refresh has answered
RefreshTokenReturn(call, result) ==
    LET done == [call EXCEPT !.pc = "done", !.result = result]
    IN IF result.err # NoError
       THEN [done EXCEPT !.outcome = [NoRefreshOutcome EXCEPT !.kind = "error",
                                                              !.error = result.err]]
       ELSE IF result.tokens = NoTokens /\ Truthy(call.access)
       THEN [done EXCEPT !.outcome =
                [NoRefreshOutcome EXCEPT
                    !.kind = "tokens",
                    !.tokens = [access |-> call.access, refresh |-> call.refresh]]]
       ELSE IF ~Truthy(call.access) /\ result.tokens = NoTokens
       THEN [done EXCEPT !.outcome = [NoRefreshOutcome EXCEPT
                                        !.kind = "error",
                                        !.error = NoTokensReturnedError]]
       ELSE [done EXCEPT !.outcome = [NoRefreshOutcome EXCEPT !.kind = "tokens",
                                                              !.tokens = result.tokens]]

\* refreshToken(refresh, access): client.refresh is called and awaited
RefreshToken(refresh, access) ==
    /\ Len(refreshes) < MaxRefreshCalls
    /\ \A i \in 1..Len(refreshes) : refreshes[i].pc = "done"
    /\ refreshes' = Append(refreshes,
            [pc |-> "refresh", refresh |-> refresh, access |-> access,
             refreshArgs |-> [refresh |-> refresh, access |-> access],
             refreshCalls |-> 1,
             result |-> NoExchangeResult, outcome |-> NoRefreshOutcome])
    /\ UNCHANGED <<options, client, calls, issued, jar, variant>>

RefreshAnswer(result) ==
    /\ refreshes # <<>>
    /\ refreshes[Len(refreshes)].pc = "refresh"
    /\ refreshes' = [refreshes EXCEPT ![Len(refreshes)] = RefreshTokenReturn(@, result)]
    /\ UNCHANGED <<options, client, calls, issued, jar, variant>>

\* what the client may answer to the refresh that is awaited
PendingRefreshAnswers ==
    IF refreshes = <<>> THEN {}
    ELSE RefreshAnswers(refreshes[Len(refreshes)].refreshArgs.refresh,
                        refreshes[Len(refreshes)].refreshArgs.access)

InitRefresh ==
    /\ options = [cookie |-> [kind |-> "undefined", name |-> Null]]
    /\ client = "arbitrary"
    /\ calls = [c \in Calls |-> IdleCall]
    /\ issued = 0
    /\ jar = <<>>
    /\ refreshes = <<>>
    /\ variant = <<>>

NextRefresh ==
    \/ \E refresh \in RefreshTokens, access \in AccessTokens : RefreshToken(refresh, access)
    \/ \E result \in PendingRefreshAnswers : RefreshAnswer(result)

SpecRefresh == InitRefresh /\ [][NextRefresh]_vars

\* the refreshToken calls that have ended
Refreshed == {i \in 1..Len(refreshes) : refreshes[i].pc = "done"}

\* C14: refreshToken is a thin fail-fast delegation to the Token
\* Client's refresh: for every refresh token and optional access token it
\* either returns exactly the tokens the client returned or raises exactly
\* the client's err, and it has no other outcome.
C14_ThinDelegation ==
    \A i \in Refreshed :
        LET call == refreshes[i]
        IN \/ /\ call.outcome.kind = "tokens"
              /\ call.result.err = NoError
              /\ call.outcome.tokens = call.result.tokens
           \/ /\ call.outcome.kind = "error"
              /\ call.result.err # NoError
              /\ call.outcome.error = call.result.err

\* C14, with the fallback of the code: refreshToken calls the client's
\* refresh once with its arguments; it raises the client's err if there is
\* one, and returns the client's tokens if there are some; when the client
\* answers with neither,
\* it returns the access and refresh tokens it was given if an access token
\* was given, and raises Error "No tokens returned" otherwise.
C14_DelegationWithFallback ==
    \A i \in 1..Len(refreshes) :
        LET call == refreshes[i]
        IN /\ call.refreshCalls = 1
           /\ call.refreshArgs = [refresh |-> call.refresh, access |-> call.access]
           /\ i \in Refreshed =>
                IF call.result.err # NoError
                THEN call.outcome = [NoRefreshOutcome EXCEPT
                                        !.kind = "error", !.error = call.result.err]
                ELSE IF call.result.tokens # NoTokens
                THEN call.outcome = [NoRefreshOutcome EXCEPT
                                        !.kind = "tokens", !.tokens = call.result.tokens]
                ELSE IF Truthy(call.access)
                THEN call.outcome = [NoRefreshOutcome EXCEPT
                        !.kind = "tokens",
                        !.tokens = [access |-> call.access, refresh |-> call.refresh]]
                ELSE call.outcome = [NoRefreshOutcome EXCEPT
                        !.kind = "error", !.error = NoTokensReturnedError]

C14_Witness ==
    /\ \E i \in Refreshed :
        /\ refreshes[i].result = [err |-> NoError, tokens |-> NoTokens]
        /\ refreshes[i].access = "a1"
        /\ refreshes[i].outcome.tokens.access = "a1"
    /\ \E i \in Refreshed :
        /\ refreshes[i].result = [err |-> NoError, tokens |-> NoTokens]
        /\ refreshes[i].access = ""
        /\ refreshes[i].outcome.kind = "error"


\* ------------------------- the single-pair variant of OpenAuthStrategy
\* one cookie, "openauth", holding one verifier and one state; the state is
\* generated by the strategy itself
VariantCookieName == "openauth"

\* generateState(): 32 random bytes, fresh on every call
GenerateState(k) == "g" \o ToString(k)

\* client.pkce(redirectURI): the k-th verifier and the authorization URL,
\* which may carry a state parameter of the client's own
PkceVerifier(k) == "pv" \o ToString(k)

PkceUrl(k, redirectUri, withState) ==
    <<[key |-> "client_id", value |-> ClientId],
      [key |-> "redirect_uri", value |-> redirectUri],
      [key |-> "response_type", value |-> "code"]>>
    \o (IF withState THEN <<[key |-> "state", value |-> "client-state"]>> ELSE <<>>)
    \o <<[key |-> "code_challenge_method", value |-> "S256"],
         [key |-> "code_challenge", value |-> "S256:" \o PkceVerifier(k)]>>

Pkce(k, redirectUri, withState) ==
    [verifier |-> PkceVerifier(k), redirect |-> PkceUrl(k, redirectUri, withState)]

\* new URLSearchParams({ verifier, state }): the value of the cookie
VariantCookieValue(verifier, state) ==
    <<[key |-> "verifier", value |-> verifier], [key |-> "state", value |-> state]>>

\* new URLSearchParams(cookie.get("openauth")): the parameters of the first
\* cookie of that name in the Cookie header, none when there is no such cookie
VariantCookieParams(cookie) ==
    LET named == {j \in 1..Len(cookie) : cookie[j].name = VariantCookieName}
    IN IF named = {} THEN NoParams
       ELSE cookie[CHOOSE j \in named : \A m \in named : j <= m].value

VariantSetCookie(verifier, state) ==
    [name |-> VariantCookieName,
     value |-> VariantCookieValue(verifier, state),
     httpOnly |-> TRUE,
     path |-> "/",
     sameSite |-> "Lax",
     maxAge |-> 60 * 5]

VariantMissingState == JsError("Error", "Missing state")

VariantInvalidState == JsError("Error", "Invalid state")

VariantMissingVerifier == JsError("Error", "Missing verifier")

VariantCheckErrors == {VariantMissingState, VariantInvalidState, VariantMissingVerifier}

NoVariantRequest == [code |-> Null, state |-> Null, cookie |-> <<>>]

IdleVariantCall ==
    [pc |-> "idle", request |-> NoVariantRequest, generated |-> Null,
     exchangeArgs |-> NoExchangeArgs, verifyArgs |-> [tokens |-> NoTokens],
     outcome |-> NoOutcome]

\* the variant's calls run one after the other
VariantMayBegin ==
    /\ Len(variant) < MaxVariantCalls
    /\ \A i \in 1..Len(variant) : variant[i].pc = "done"

\* the call that is under way, if any
VariantCurrent == IF variant = <<>> THEN IdleVariantCall ELSE variant[Len(variant)]

\* the flow starts of the variant that have raised their redirect
VariantRedirected ==
    {i \in 1..Len(variant) : variant[i].pc = "done" /\ variant[i].outcome.kind = "redirect"}

\* the Cookie headers a request may carry: none, those of arbitrary clients,
\* and the cookies set by the redirects raised so far
VariantCookies ==
    { <<>> }
    \cup { <<[name |-> VariantCookieName, value |-> v]>> :
            v \in { VariantCookieValue(PkceVerifier(1), GenerateState(1)),
                    <<[key |-> "state", value |-> GenerateState(1)]>>,
                    <<[key |-> "verifier", value |-> PkceVerifier(1)]>> } }
    \cup { <<[name |-> variant[i].outcome.response.setCookie[1].name,
              value |-> variant[i].outcome.response.setCookie[1].value]>>
           : i \in VariantRedirected }

\* the requests: a browser coming back from the provider carries the state
\* of the Location it followed; an arbitrary client sends any state
VariantRequests ==
    [code : {Null, "c1"},
     state : {Null, GenerateState(1), "client-state"}
             \cup { ParamGet(variant[i].outcome.response.location, "state")
                    : i \in VariantRedirected },
     cookie : VariantCookies]

\* if (!code): client.pkce(redirectURI) is called and awaited
VariantFlowStart(request) ==
    /\ VariantMayBegin
    /\ ~Truthy(request.code)
    /\ variant' = Append(variant,
            [IdleVariantCall EXCEPT !.request = request, !.pc = "pkce"])
    /\ UNCHANGED <<options, client, calls, issued, jar, refreshes>>

\* the rest of the flow-start branch: the state is set on a copy of the URL,
\* the cookie takes the verifier and the state, and the Location header is
\* the string client.pkce returned
VariantRedirect(call, result, state) ==
    LET url == ParamSet(result.redirect, "state", state)
        setCookie == VariantSetCookie(result.verifier, state)
    IN [call EXCEPT
            !.pc = "done",
            !.generated = state,
            !.outcome = [NoOutcome EXCEPT
                !.kind = "redirect",
                !.response = Redirect(result.redirect, setCookie)]]

VariantPkceAnswer(withState) ==
    /\ VariantCurrent.pc = "pkce"
    /\ variant' = [variant EXCEPT ![Len(variant)] =
            VariantRedirect(@, Pkce(Len(variant), RedirectUri, withState),
                            GenerateState(Len(variant)))]
    /\ UNCHANGED <<options, client, calls, issued, jar, refreshes>>

\* the completion path up to the call of client.exchange
VariantChecks(call) ==
    LET params == VariantCookieParams(call.request.cookie)
        verifier == ParamGet(params, "verifier")
        state == ParamGet(params, "state")
    IN IF ~Truthy(state) THEN Raise(call, VariantMissingState)
       ELSE IF state # call.request.state THEN Raise(call, VariantInvalidState)
       ELSE IF ~Truthy(verifier) THEN Raise(call, VariantMissingVerifier)
       ELSE [call EXCEPT
                !.pc = "exchange",
                !.exchangeArgs = [code |-> call.request.code,
                                  redirectUri |-> RedirectUri,
                                  verifier |-> verifier]]

VariantCallback(request) ==
    /\ VariantMayBegin
    /\ Truthy(request.code)
    /\ variant' = Append(variant,
            VariantChecks([IdleVariantCall EXCEPT !.request = request]))
    /\ UNCHANGED <<options, client, calls, issued, jar, refreshes>>

\* client.exchange resolves: return this.verify({ tokens })
VariantExchangeResolves(tokens) ==
    /\ VariantCurrent.pc = "exchange"
    /\ variant' = [variant EXCEPT ![Len(variant)] =
            [@ EXCEPT !.pc = "verify", !.verifyArgs = [tokens |-> tokens]]]
    /\ UNCHANGED <<options, client, calls, issued, jar, refreshes>>

\* client.exchange rejects: the error leaves authenticate
VariantExchangeRejects(error) ==
    /\ VariantCurrent.pc = "exchange"
    /\ variant' = [variant EXCEPT ![Len(variant)] = Raise(@, error)]
    /\ UNCHANGED <<options, client, calls, issued, jar, refreshes>>

VariantVerifyResolves ==
    /\ VariantCurrent.pc = "verify"
    /\ variant' = [variant EXCEPT ![Len(variant)] =
            ReturnUser(@, VerifyUser(VariantCurrent.verifyArgs))]
    /\ UNCHANGED <<options, client, calls, issued, jar, refreshes>>

VariantVerifyRejects(error) ==
    /\ VariantCurrent.pc = "verify"
    /\ variant' = [variant EXCEPT ![Len(variant)] = Raise(@, error)]
    /\ UNCHANGED <<options, client, calls, issued, jar, refreshes>>

InitVariant ==
    /\ options = [cookie |-> [kind |-> "undefined", name |-> Null]]
    /\ client = "arbitrary"
    /\ calls = [c \in Calls |-> IdleCall]
    /\ issued = 0
    /\ jar = <<>>
    /\ refreshes = <<>>
    /\ variant = <<>>

NextVariant ==
    \/ \E request \in VariantRequests : VariantFlowStart(request)
    \/ \E withState \in BOOLEAN : VariantPkceAnswer(withState)
    \/ \E request \in VariantRequests : VariantCallback(request)
    \/ VariantExchangeResolves(TokensFor(VariantCurrent.exchangeArgs.code,
                                         VariantCurrent.exchangeArgs.verifier))
    \/ \E error \in ExchangeErrs : VariantExchangeRejects(error)
    \/ VariantVerifyResolves
    \/ \E error \in VerifyErrs : VariantVerifyRejects(error)

SpecVariant == InitVariant /\ [][NextVariant]_vars

\* call i is the provider's callback of flow start f of the variant: it
\* carries the state of the Location f raised and the cookie f set
VariantCallbackOf(i, f) ==
    /\ f \in VariantRedirected
    /\ i \in 1..Len(variant)
    /\ Truthy(variant[i].request.code)
    /\ variant[i].request.state =
            ParamGet(variant[f].outcome.response.location, "state")
    /\ variant[i].request.cookie =
            <<[name |-> variant[f].outcome.response.setCookie[1].name,
               value |-> variant[f].outcome.response.setCookie[1].value]>>

\* C19: in the single-pair variant the Location header of the flow-start
\* 302 carries as its state parameter the same state that is saved in the
\* cookie, so that the provider's callback passes the state check.
C19_LocationCarriesSavedState ==
    /\ \A f \in VariantRedirected :
        LET response == variant[f].outcome.response
        IN /\ response.status = 302
           /\ ParamGet(response.location, "state") =
                ParamGet(response.setCookie[1].value, "state")
    /\ \A f \in VariantRedirected : \A i \in 1..Len(variant) :
        VariantCallbackOf(i, f) => variant[i].outcome.error # VariantInvalidState

====
